---- MODULE Spec2Model ----
(***************************************************************************)
(* The layered account/storage state of rethnet_evm:                        *)
(* crates/rethnet_evm/src/state/layered_state.rs and state/account.rs.      *)
(*                                                                         *)
(* A LayeredState is a stack of RethnetLayers plus a table of snapshots.    *)
(* Every public operation of LayeredState<RethnetLayer> is one action.      *)
(*                                                                         *)
(* Encodings                                                               *)
(*   Option<T>      the empty set is None, the singleton {x} is Some(x)     *)
(*   B256 (code)    a string: KECCAK_EMPTY, ZeroHash, or Hash(bytecode)     *)
(*   B256 (root)    the trie root is collision free, so a root is modelled  *)
(*                  by the content the trie commits to: the set of its      *)
(*                  (key, value) leaves                                     *)
(*   HashMap<K, V>  a function on the set of its keys; the accounts map is  *)
(*                  written with insert_unique_unchecked, which can leave   *)
(*                  several entries under one key, so each key of that map  *)
(*                  holds the sequence of its entries in probe order (the   *)
(*                  head is the one every lookup finds) and the index of    *)
(*                  the entry that iteration meets first                    *)
(***************************************************************************)
EXTENDS Integers, Sequences, FiniteSets, TLC

\* ------------------------------------------------------------------ bounds
\* Number of operations in a run.
MaxSteps == 4
\* Number of layers of the live stack (checkpoint is disabled at the bound).
MaxLayers == 3
\* Number of entries of the snapshot table (make_snapshot is disabled beyond).
MaxSnapshots == 1
\* Number of entries one key of an accounts map can hold.
MaxEntries == 2

\* ------------------------------------------------------------ input domains
Addresses == {"a1", "a2"}
Slots == {1}
Values == {0, 1}

\* ------------------------------------------------------------------ options
None == {}
Some(x) == {x}
Unwrap(o) == CHOOSE x \in o : TRUE

\* ------------------------------------------------------------- code digests
KECCAK_EMPTY == "keccak_empty"
ZeroHash == "zero"
\* Bytecode::new(): the empty bytecode
EmptyCode == "empty"
Bytecodes == {EmptyCode, "b1", "b2"}
\* Bytecode::hash
Hash(code) == IF code = EmptyCode THEN KECCAK_EMPTY
              ELSE IF code = "b1" THEN "h1" ELSE "h2"
\* Bytecode::is_empty
IsEmptyCode(code) == code = EmptyCode
CodeHashes == {KECCAK_EMPTY, ZeroHash, "h1", "h2"}

\* ------------------------------------------------------------------ records
\* AccountInfo::default()
DefaultInfo == [balance |-> 0, nonce |-> 0, code_hash |-> KECCAK_EMPTY,
                code |-> Some(EmptyCode)]
EmptyStorage == << >>
\* RethnetAccount::default()
DefaultAccount == [info |-> DefaultInfo, storage |-> EmptyStorage]
\* impl From<AccountInfo> for RethnetAccount
FromInfo(info) == [info |-> info, storage |-> EmptyStorage]
\* RethnetLayer::default()
DefaultLayer == [accounts |-> << >>, contracts |-> << >>, state_root |-> None]

\* HashMap::insert on a map without duplicate keys (contracts, storage, state)
MapPut(m, k, v) == [x \in DOMAIN m \cup {k} |-> IF x = k THEN v ELSE m[x]]
\* HashMap::remove
MapDel(m, k) == [x \in DOMAIN m \ {k} |-> m[x]]

\* RethnetAccount::split_code: the account afterwards and the code returned
SplitCode(account) ==
    IF account.info.code_hash # KECCAK_EMPTY /\ account.info.code # None
    THEN LET code == Unwrap(account.info.code)
             taken == [account EXCEPT !.info.code = None]
         IN IF ~IsEmptyCode(code)
            THEN [account |-> [taken EXCEPT !.info.code_hash = Hash(code)],
                  code |-> Some(code)]
            ELSE [account |-> taken, code |-> None]
    ELSE [account |-> account, code |-> None]

\* ------------------------------------------------------- the accounts map
\* One key of an accounts map: its entries in probe order, and the index of
\* the entry that HashMap::iter meets first.
Single(entry) == [probe |-> <<entry>>, first |-> 1]
\* HashMap::contains_key
HasKey(layer, a) == a \in DOMAIN layer.accounts
\* HashMap::get / get_mut: the first entry in probe order
Get(layer, a) == layer.accounts[a].probe[1]
\* The entry of a key that HashMap::iter yields first
IterFirst(layer, a) == layer.accounts[a].probe[layer.accounts[a].first]
\* HashMap::insert: overwrites the entry a lookup finds, or adds the key
AccountsInsert(accounts, a, entry) ==
    IF a \in DOMAIN accounts
    THEN [accounts EXCEPT ![a].probe[1] = entry]
    ELSE MapPut(accounts, a, Single(entry))
InsertAt(s, pos, x) == SubSeq(s, 1, pos - 1) \o <<x>> \o SubSeq(s, pos, Len(s))
\* HashMap::insert_unique_unchecked: adds an entry without looking for the
\* key. Under a key that is present the table then holds both entries; where
\* the new one lands in probe order (pos) and whether iteration meets it
\* before the others (newFirst) depend on the table's layout.
InsertUniqueUnchecked(accounts, a, entry, pos, newFirst) ==
    IF a \in DOMAIN accounts
    THEN LET old == accounts[a]
         IN [accounts EXCEPT ![a] =
                [probe |-> InsertAt(old.probe, pos, entry),
                 first |-> IF newFirst THEN pos
                           ELSE IF old.first >= pos THEN old.first + 1
                           ELSE old.first]]
    ELSE MapPut(accounts, a, Single(entry))

\* ---------------------------------------------------------- the layer stack
\* LayeredState::last_layer_id (1-based here)
Top(stack) == stack[Len(stack)]
\* Mutant of SetTop: the write lands in the base layer
SetTopBase(stack, layer) == [stack EXCEPT ![1] = layer]
SetTop(stack, layer) == [stack EXCEPT ![Len(stack)] = layer]

\* ------------------------------------------------------------------- reads
\* Mutant of FindAccount: the layers are searched from the base
FindAccountFromBase(stack, a, i) ==
    LET has == {j \in 1..i : HasKey(stack[j], a)}
    IN IF has = {} THEN None
       ELSE Get(stack[CHOOSE j \in has : \A k \in has : j <= k], a)
\* Mutant of FindAccount: a tombstone lets the lookup fall through
RECURSIVE FindAccountSkippingTombstones(_, _, _)
FindAccountSkippingTombstones(stack, a, i) ==
    IF i = 0 THEN None
    ELSE IF HasKey(stack[i], a) /\ Get(stack[i], a) # None THEN Get(stack[i], a)
    ELSE FindAccountSkippingTombstones(stack, a, i - 1)
RECURSIVE FindAccount(_, _, _)
FindAccount(stack, a, i) ==
    IF i = 0 THEN None
    ELSE IF HasKey(stack[i], a) THEN Get(stack[i], a)
    ELSE FindAccount(stack, a, i - 1)
\* LayeredState::account: the first layer from the top that has the key
\* decides; a tombstone there gives None
Account(stack, a) == FindAccount(stack, a, Len(stack))

\* State::basic
Basic(stack, a) ==
    IF Account(stack, a) = None THEN DefaultInfo
    ELSE Unwrap(Account(stack, a)).info

RECURSIVE FindCode(_, _, _)
FindCode(stack, h, i) ==
    IF i = 0 THEN None
    ELSE IF h \in DOMAIN stack[i].contracts THEN Some(stack[i].contracts[h])
    ELSE FindCode(stack, h, i - 1)
\* State::code_by_hash: None stands for Err(InvalidCodeHash)
CodeByHash(stack, h) == FindCode(stack, h, Len(stack))

\* State::storage
Storage(stack, a, index) ==
    IF Account(stack, a) = None THEN 0
    ELSE LET storage == Unwrap(Account(stack, a)).storage
         IN IF index \in DOMAIN storage THEN storage[index] ELSE 0

\* ---------------------------------------------------------------- the root
\* rethnet_eth::state::storage_root: the trie over the non-zero slots
StorageRoot(storage) ==
    {<<s, storage[s]>> : s \in {x \in DOMAIN storage : storage[x] # 0}}
\* The BasicAccount that state_root builds for a present entry
BasicAccount(account) ==
    [nonce |-> account.info.nonce, balance |-> account.info.balance,
     storage_root |-> StorageRoot(account.storage),
     code_hash |-> account.info.code_hash]
\* rethnet_eth::state::state_root: the trie over the (address, account) pairs
TrieRoot(state) == {<<a, state[a]>> : a \in DOMAIN state}
\* The merge of state_root: layers from the top, each layer's entries in
\* iteration order, state.entry(address).or_insert(..) keeps the first seen
RECURSIVE MergeLayers(_, _, _)
MergeLayers(stack, i, state) ==
    IF i = 0 THEN state
    ELSE LET layer == stack[i]
             seen == DOMAIN state
             merged == [a \in seen \cup DOMAIN layer.accounts |->
                           IF a \in seen THEN state[a]
                           ELSE IF IterFirst(layer, a) = None THEN None
                           ELSE Some(BasicAccount(Unwrap(IterFirst(layer, a))))]
         IN MergeLayers(stack, i - 1, merged)
\* StateDebug::state_root
StateRoot(stack) ==
    LET state == MergeLayers(stack, Len(stack), << >>)
    IN TrieRoot([a \in {x \in DOMAIN state : state[x] # None} |->
                    Unwrap(state[a])])

\* ------------------------------------------------------- mutable handles
\* The record behind a handle into the top layer (entry pos of key a)
Handle(stack, a, pos) == Unwrap(Top(stack).accounts[a].probe[pos])
\* A write through such a handle
WriteHandle(stack, a, pos, account) ==
    SetTop(stack, [Top(stack) EXCEPT !.accounts[a].probe[pos] = Some(account)])

\* LayeredState::account_mut: the stack afterwards and whether a handle is
\* returned
AccountMut(stack, a) ==
    LET top == Top(stack)
    IN IF HasKey(top, a) THEN [stack |-> stack, found |-> TRUE]
       ELSE IF Account(stack, a) = None THEN [stack |-> stack, found |-> FALSE]
       ELSE [stack |-> SetTop(stack, [top EXCEPT !.accounts =
                         InsertUniqueUnchecked(@, a, Account(stack, a), 1, TRUE)]),
             found |-> TRUE]

\* LayeredState::account_or_insert_mut: the possible outcomes, each the stack
\* afterwards and the position of the entry the returned handle points to.
\* A present entry in the top layer is returned as it is. Otherwise the
\* visible record (or the default) is added with insert_unique_unchecked,
\* also when the top layer holds a tombstone under the key.
AccountOrInsertMut(stack, a) ==
    LET top == Top(stack)
    IN IF HasKey(top, a) /\ Get(top, a) # None
       THEN {[stack |-> stack, pos |-> 1]}
       ELSE LET account == IF Account(stack, a) = None THEN DefaultAccount
                           ELSE Unwrap(Account(stack, a))
                places == IF HasKey(top, a)
                          THEN (1..(Len(top.accounts[a].probe) + 1)) \X BOOLEAN
                          ELSE {<<1, TRUE>>}
            IN {[stack |-> SetTop(stack, [top EXCEPT !.accounts =
                              InsertUniqueUnchecked(@, a, Some(account), c[1], c[2])]),
                 pos |-> c[1]] : c \in places}

\* ------------------------------------------------------------- mutations
\* RethnetLayer::insert_account
LayerInsertAccount(layer, a, account) ==
    LET a1 == IF account.info.code_hash = ZeroHash
              THEN [account EXCEPT !.info.code_hash = KECCAK_EMPTY]
              ELSE account
    IN IF a1.info.code_hash = KECCAK_EMPTY
       THEN [layer EXCEPT !.accounts = AccountsInsert(@, a,
                              Some([a1 EXCEPT !.info.code = Some(EmptyCode)]))]
       ELSE LET split == SplitCode(a1)
            IN [layer EXCEPT
                  !.contracts = IF split.code = None THEN @
                                ELSE MapPut(@, Hash(Unwrap(split.code)), Unwrap(split.code)),
                  !.accounts = AccountsInsert(@, a, Some(split.account))]

\* StateDebug::insert_account
InsertAccount(stack, a, info) ==
    SetTop(stack, LayerInsertAccount(Top(stack), a, FromInfo(info)))

\* The debug assertion of remove_account: a visible record with a non-empty
\* code digest carries no inline code
RemoveAssertion(stack, a) ==
    Account(stack, a) # None /\ Unwrap(Account(stack, a)).info.code_hash # KECCAK_EMPTY
        => Unwrap(Account(stack, a)).info.code = None

\* Mutant of RemoveAccount: no placeholder is put under the code digest
RemoveAccountNoPlaceholder(stack, a) ==
    IF Account(stack, a) # None
    THEN [stack |-> SetTop(stack, [Top(stack) EXCEPT !.accounts = AccountsInsert(@, a, None)]),
          ret |-> Some(Unwrap(Account(stack, a)).info)]
    ELSE [stack |-> stack, ret |-> None]
\* LayeredState::remove_account: the stack afterwards and the info returned
RemoveAccount(stack, a) ==
    IF Account(stack, a) # None
    THEN LET info == Unwrap(Account(stack, a)).info
             top == Top(stack)
             placed == IF info.code_hash # KECCAK_EMPTY
                       THEN [top EXCEPT !.contracts = MapPut(@, info.code_hash, EmptyCode)]
                       ELSE top
         IN [stack |-> SetTop(stack, [placed EXCEPT !.accounts = AccountsInsert(@, a, None)]),
             ret |-> Some(info)]
    ELSE [stack |-> stack, ret |-> None]

\* revm AccountInfo::is_empty
IsEmptyInfo(info) ==
    /\ info.balance = 0
    /\ info.nonce = 0
    /\ info.code_hash \in {KECCAK_EMPTY, ZeroHash}

\* The storage loop of commit: a zero value removes the slot, another sets it
RECURSIVE ApplyStorage(_, _)
ApplyStorage(storage, changes) ==
    IF DOMAIN changes = {} THEN storage
    ELSE LET index == CHOOSE x \in DOMAIN changes : TRUE
             value == changes[index]
         IN ApplyStorage(IF value = 0 THEN MapDel(storage, index)
                         ELSE MapPut(storage, index, value),
                         MapDel(changes, index))

\* Mutant of CommitOne: inline code of the diff is detached into the top
\* layer's contract table, as insert_account does
CommitOneDetaching(stack, a, diff) ==
    IF IsEmptyInfo(diff.info) \/ diff.is_destroyed
    THEN {RemoveAccount(stack, a).stack}
    ELSE {LET old == Handle(h.stack, a, h.pos)
              kept == IF diff.storage_cleared THEN EmptyStorage ELSE old.storage
              split == SplitCode([info |-> diff.info,
                                  storage |-> ApplyStorage(kept, diff.storage)])
              written == WriteHandle(h.stack, a, h.pos, split.account)
          IN IF split.code = None THEN written
             ELSE SetTop(written, [Top(written) EXCEPT !.contracts =
                     MapPut(@, Hash(Unwrap(split.code)), Unwrap(split.code))])
          : h \in AccountOrInsertMut(stack, a)}
\* The closure of commit for one (address, account) of the changes: the
\* possible stacks afterwards
CommitOne(stack, a, diff) ==
    IF IsEmptyInfo(diff.info) \/ diff.is_destroyed
    THEN {RemoveAccount(stack, a).stack}
    ELSE {LET old == Handle(h.stack, a, h.pos)
              kept == IF diff.storage_cleared THEN EmptyStorage ELSE old.storage
          IN WriteHandle(h.stack, a, h.pos,
                         [info |-> diff.info,
                          storage |-> ApplyStorage(kept, diff.storage)])
          : h \in AccountOrInsertMut(stack, a)}

\* DatabaseCommit::commit: the changes are visited in the order the map
\* yields them (order: a sequence of the keys of changes)
RECURSIVE Commit(_, _, _)
Commit(stack, changes, order) ==
    IF order = << >> THEN {stack}
    ELSE UNION {Commit(s, changes, Tail(order))
                : s \in CommitOne(stack, Head(order), changes[Head(order)])}

\* The effect of a modifier on the code argument: modifier.code is None when
\* the modifier leaves the argument alone, Some(c) when it assigns c
ModifiedCode(code, modifier) ==
    IF modifier.code = None THEN code ELSE Unwrap(modifier.code)

\* StateDebug::modify_account: the possible stacks afterwards
ModifyAccount(stack, a, modifier) ==
    {LET account == Handle(h.stack, a, h.pos)
         old_code_hash == account.info.code_hash
         code == ModifiedCode(account.info.code, modifier)
         new_code_hash == IF code = None THEN KECCAK_EMPTY ELSE Hash(Unwrap(code))
         info == [balance |-> IF modifier.balance = None THEN account.info.balance
                              ELSE Unwrap(modifier.balance),
                  nonce |-> IF modifier.nonce = None THEN account.info.nonce
                            ELSE Unwrap(modifier.nonce),
                  code_hash |-> new_code_hash,
                  code |-> IF new_code_hash # KECCAK_EMPTY THEN None ELSE code]
         written == WriteHandle(h.stack, a, h.pos, [account EXCEPT !.info = info])
         stored == IF new_code_hash # KECCAK_EMPTY
                   THEN [Top(written) EXCEPT !.contracts =
                            MapPut(@, new_code_hash, Unwrap(code))]
                   ELSE Top(written)
         placed == IF old_code_hash # KECCAK_EMPTY /\ old_code_hash # new_code_hash
                   THEN [stored EXCEPT !.contracts = MapPut(@, old_code_hash, EmptyCode)]
                   ELSE stored
     IN SetTop(written, placed)
     : h \in AccountOrInsertMut(stack, a)}

\* StateDebug::set_account_storage_slot: the possible stacks afterwards
SetAccountStorageSlot(stack, a, index, value) ==
    {LET account == Handle(h.stack, a, h.pos)
     IN WriteHandle(h.stack, a, h.pos,
                    [account EXCEPT !.storage = MapPut(@, index, value)])
     : h \in AccountOrInsertMut(stack, a)}

\* ------------------------------------------- checkpoints, snapshots, roots
\* Mutant of Checkpoint: the top layer is sealed but no layer is added
CheckpointNoLayer(stack) ==
    SetTop(stack, [Top(stack) EXCEPT !.state_root = Some(StateRoot(stack))])
\* Mutant of Checkpoint: the layer left below is not sealed
CheckpointNoSeal(stack) == Append(stack, DefaultLayer)
\* StateDebug::checkpoint
Checkpoint(stack) ==
    Append(SetTop(stack, [Top(stack) EXCEPT !.state_root = Some(StateRoot(stack))]),
           DefaultLayer)

\* LayeredState::revert_to_layer (layer_id is 0-based, as in the source)
RevertToLayer(stack, layer_id) == SubSeq(stack, 1, layer_id + 1)

\* Mutant of Revert: the layer above the base is not revertible either
RevertOffByOne(stack) ==
    LET last_layer_id == Len(stack) - 1
    IN IF last_layer_id > 1
       THEN [stack |-> RevertToLayer(stack, last_layer_id - 1), ok |-> TRUE]
       ELSE [stack |-> stack, ok |-> FALSE]
\* StateDebug::revert
Revert(stack) ==
    LET last_layer_id == Len(stack) - 1
    IN IF last_layer_id > 0
       THEN [stack |-> RevertToLayer(stack, last_layer_id - 1), ok |-> TRUE]
       ELSE [stack |-> stack, ok |-> FALSE]

\* Mutant of MakeSnapshot: the stored copy is not sealed
MakeSnapshotUnsealed(stack, table) ==
    LET state_root == StateRoot(stack)
        exists == state_root \in DOMAIN table
    IN [snapshots |-> IF exists THEN table ELSE MapPut(table, state_root, stack),
        root |-> state_root, exists |-> exists]
\* StateDebug::make_snapshot
MakeSnapshot(stack, table) ==
    LET state_root == StateRoot(stack)
        exists == state_root \in DOMAIN table
        snapshot == SetTop(stack, [Top(stack) EXCEPT !.state_root = Some(state_root)])
    IN [snapshots |-> IF exists THEN table ELSE MapPut(table, state_root, snapshot),
        root |-> state_root, exists |-> exists]

\* StateDebug::remove_snapshot
RemoveSnapshot(table, state_root) ==
    [snapshots |-> MapDel(table, state_root), ret |-> state_root \in DOMAIN table]

\* The scan of set_state_root: the first layer (from the base) whose cached
\* root is the wanted one; 0 when there is none
RECURSIVE ScanLayers(_, _, _)
ScanLayers(stack, state_root, i) ==
    IF i > Len(stack) THEN 0
    ELSE IF stack[i].state_root = Some(state_root) THEN i
    ELSE ScanLayers(stack, state_root, i + 1)

\* The scan unwraps the cached root of every layer it visits
ScanUnwraps(stack, state_root) ==
    LET hit == ScanLayers(stack, state_root, 1)
        last == IF hit = 0 THEN Len(stack) ELSE hit
    IN \A i \in 1..last : stack[i].state_root # None

\* Mutant of SetStateRoot: the snapshot table is not consulted
SetStateRootNoTable(stack, table, state_root) ==
    LET sealed == IF Top(stack).state_root = None
                  THEN SetTop(stack, [Top(stack) EXCEPT !.state_root = Some(StateRoot(stack))])
                  ELSE stack
        layer == ScanLayers(sealed, state_root, 1)
    IN IF layer # 0
       THEN [stack |-> SubSeq(sealed, 1, layer), snapshots |-> table, ok |-> TRUE]
       ELSE [stack |-> sealed, snapshots |-> table, ok |-> FALSE]
\* StateDebug::set_state_root
SetStateRoot(stack, table, state_root) ==
    LET sealed == IF Top(stack).state_root = None
                  THEN SetTop(stack, [Top(stack) EXCEPT !.state_root = Some(StateRoot(stack))])
                  ELSE stack
        layer == ScanLayers(sealed, state_root, 1)
    IN IF state_root \in DOMAIN table
       THEN [stack |-> table[state_root], snapshots |-> MapDel(table, state_root),
             ok |-> TRUE]
       ELSE IF layer # 0
       THEN [stack |-> SubSeq(sealed, 1, layer), snapshots |-> table, ok |-> TRUE]
       ELSE [stack |-> sealed, snapshots |-> table, ok |-> FALSE]

\* RethnetLayer::with_genesis_accounts
WithGenesisAccounts(genesis_accounts) ==
    LET split == [a \in DOMAIN genesis_accounts |-> SplitCode(FromInfo(genesis_accounts[a]))]
        coded == {a \in DOMAIN split : split[a].code # None}
    IN [accounts |-> [a \in DOMAIN split |-> Single(Some(split[a].account))],
        contracts |-> [h \in {Hash(Unwrap(split[a].code)) : a \in coded} |->
                          Unwrap(split[CHOOSE a \in coded : Hash(Unwrap(split[a].code)) = h].code)],
        state_root |-> None]

\* ----------------------------------------------------------------- inputs
Info(balance, nonce, code_hash, code) ==
    [balance |-> balance, nonce |-> nonce, code_hash |-> code_hash, code |-> code]
PlainInfo == Info(1, 0, KECCAK_EMPTY, None)
CodedInfo == Info(1, 0, "h1", Some("b1"))
\* The genesis accounts a state is built with
Genesis == {<< >>,
            [a \in {"a1"} |-> PlainInfo],
            [a \in Addresses |-> CodedInfo]}
\* The infos insert_account is called with
InsertInfos == {Info(1, 0, ZeroHash, None), CodedInfo}
\* revm Account, as far as commit reads it
Diff(info, storage, storage_cleared, is_destroyed) ==
    [info |-> info, storage |-> storage, storage_cleared |-> storage_cleared,
     is_destroyed |-> is_destroyed]
Slot(index, value) == [s \in {index} |-> value]
\* The diffs commit is called with: a destroyed account, an empty one, a
\* write of a slot, a reset of a slot with a storage clear, new inline code
Diffs == {Diff(PlainInfo, EmptyStorage, FALSE, TRUE),
          Diff(Info(0, 0, KECCAK_EMPTY, None), EmptyStorage, FALSE, FALSE),
          Diff(Info(0, 1, KECCAK_EMPTY, None), Slot(1, 1), FALSE, FALSE),
          Diff(Info(1, 1, KECCAK_EMPTY, None), Slot(1, 0), TRUE, FALSE),
          Diff(Info(1, 0, "h2", Some("b2")), EmptyStorage, FALSE, FALSE)}
\* The batches commit is called with: the empty one, one diff for one
\* address, and a destroyed address together with a written one
Changes == {<< >>}
           \cup {[a \in {b} |-> d] : b \in Addresses, d \in Diffs}
           \cup {[a \in Addresses |-> IF a = b
                                      THEN Diff(PlainInfo, EmptyStorage, FALSE, TRUE)
                                      ELSE Diff(Info(0, 1, KECCAK_EMPTY, None),
                                                Slot(1, 1), FALSE, FALSE)]
                 : b \in Addresses}
\* The orders in which a map with these keys can yield them
RECURSIVE Orders(_)
Orders(keys) ==
    IF keys = {} THEN {<< >>}
    ELSE UNION {{<<k>> \o rest : rest \in Orders(keys \ {k})} : k \in keys}
\* The modifiers modify_account is called with: one that sets balance and
\* nonce, one that assigns new code, one that assigns no code
Modifier(balance, nonce, code) == [balance |-> balance, nonce |-> nonce, code |-> code]
Modifiers == {Modifier(Some(0), Some(1), None),
              Modifier(None, None, Some(Some("b2"))),
              Modifier(None, None, Some(None))}
\* A root that no state over Addresses has
UnknownRoot == TrieRoot([a \in {"a0"} |-> BasicAccount(DefaultAccount)])

\* ------------------------------------------------------------------ state
VARIABLES
    stack,      \* LayeredState::stack
    snapshots,  \* LayeredState::snapshots
    op,         \* the last operation: its name, arguments and result (revert
                \* and set_state_root also record cp and snap as they were)
    steps,      \* the number of operations so far
    cp,         \* what the reads returned before the last checkpoint, while
                \* only the top layer has been written since
    snap        \* the root make_snapshot last returned and what the reads
                \* returned then, while no snapshot operation has run since

vars == <<steps, stack, snapshots, op, cp, snap>>

\* What a caller can read: account, storage, code_by_hash and state_root
Reads(s) ==
    [account |-> [a \in Addresses |-> Account(s, a)],
     storage |-> [a \in Addresses |-> [i \in Slots |-> Storage(s, a, i)]],
     code |-> [h \in CodeHashes |-> CodeByHash(s, h)],
     root |-> StateRoot(s)]

Op(name, addr, arg, ok, ret) ==
    [name |-> name, addr |-> addr, arg |-> arg, ok |-> ok, ret |-> ret]

\* No key of the top layer holds more than MaxEntries entries
Bounded(s) ==
    \A a \in DOMAIN Top(s).accounts : Len(Top(s).accounts[a].probe) <= MaxEntries

\* The roots a caller can know: of the snapshots, of the layers, the current
\* one, the one make_snapshot last returned, and one that was never computed
Roots ==
    DOMAIN snapshots
    \cup {Unwrap(stack[i].state_root) : i \in {j \in 1..Len(stack) : stack[j].state_root # None}}
    \cup {StateRoot(stack), UnknownRoot}
    \cup {r.root : r \in snap}

\* LayeredState::with_layer(RethnetLayer::with_genesis_accounts(..)), or
\* LayeredState::default() for no genesis accounts
Init ==
    /\ \E g \in Genesis : stack = <<WithGenesisAccounts(g)>>
    /\ snapshots = << >>
    /\ op = Op("init", "", None, TRUE, None)
    /\ steps = 0
    /\ cp = None
    /\ snap = None

Tick == steps < MaxSteps /\ steps' = steps + 1
\* A write of the top layer keeps both records of earlier reads
Written == UNCHANGED <<snapshots, cp, snap>>

DoAccountMut ==
    /\ Tick
    /\ \E a \in Addresses :
          LET r == AccountMut(stack, a)
          IN /\ stack' = r.stack
             /\ op' = Op("account_mut", a, None, r.found, None)
    /\ Written

DoAccountOrInsertMut ==
    /\ Tick
    /\ \E a \in Addresses : \E h \in AccountOrInsertMut(stack, a) :
          /\ Bounded(h.stack)
          /\ stack' = h.stack
          /\ op' = Op("account_or_insert_mut", a, None, TRUE, h.pos)
    /\ Written

DoInsertAccount ==
    /\ Tick
    /\ \E a \in Addresses, info \in InsertInfos :
          /\ stack' = InsertAccount(stack, a, info)
          /\ op' = Op("insert_account", a, info, TRUE, None)
    /\ Written

DoRemoveAccount ==
    /\ Tick
    /\ \E a \in Addresses :
          LET r == RemoveAccount(stack, a)
          IN /\ stack' = r.stack
             /\ op' = Op("remove_account", a, None, TRUE, r.ret)
    /\ Written

DoCommit ==
    /\ Tick
    /\ \E changes \in Changes : \E order \in Orders(DOMAIN changes) :
          \E s \in Commit(stack, changes, order) :
             /\ Bounded(s)
             /\ stack' = s
             /\ op' = Op("commit", "", changes, TRUE, order)
    /\ Written

DoModifyAccount ==
    /\ Tick
    /\ \E a \in Addresses, modifier \in Modifiers :
          \E s \in ModifyAccount(stack, a, modifier) :
             /\ Bounded(s)
             /\ stack' = s
             /\ op' = Op("modify_account", a, modifier, TRUE, None)
    /\ Written

DoSetAccountStorageSlot ==
    /\ Tick
    /\ \E a \in Addresses, index \in Slots, value \in Values :
          \E s \in SetAccountStorageSlot(stack, a, index, value) :
             /\ Bounded(s)
             /\ stack' = s
             /\ op' = Op("set_account_storage_slot", a, <<index, value>>, TRUE, None)
    /\ Written

DoCheckpoint ==
    /\ Tick
    /\ Len(stack) < MaxLayers
    /\ stack' = Checkpoint(stack)
    /\ op' = Op("checkpoint", "", None, TRUE, None)
    /\ cp' = Some(Reads(stack))
    /\ UNCHANGED <<snapshots, snap>>

DoRevert ==
    /\ Tick
    /\ LET r == Revert(stack)
       IN /\ stack' = r.stack
          /\ op' = Op("revert", "", cp, r.ok,
                      cp # None /\ Reads(stack) # Unwrap(cp))
    /\ cp' = None
    /\ UNCHANGED <<snapshots, snap>>

DoMakeSnapshot ==
    /\ Tick
    /\ LET r == MakeSnapshot(stack, snapshots)
       IN /\ Cardinality(DOMAIN r.snapshots) <= MaxSnapshots
          /\ snapshots' = r.snapshots
          /\ op' = Op("make_snapshot", "", None, TRUE, <<r.root, r.exists>>)
          /\ snap' = Some([root |-> r.root, fresh |-> ~r.exists,
                            reads |-> Reads(stack)])
    /\ cp' = None
    /\ UNCHANGED stack

DoRemoveSnapshot ==
    /\ Tick
    /\ \E state_root \in DOMAIN snapshots \cup {UnknownRoot} :
          LET r == RemoveSnapshot(snapshots, state_root)
          IN /\ snapshots' = r.snapshots
             /\ op' = Op("remove_snapshot", "", state_root, TRUE, r.ret)
    /\ cp' = None
    /\ snap' = None
    /\ UNCHANGED stack

DoSetStateRoot ==
    /\ Tick
    /\ \E state_root \in Roots :
          LET r == SetStateRoot(stack, snapshots, state_root)
          IN /\ stack' = r.stack
             /\ snapshots' = r.snapshots
             /\ op' = Op("set_state_root", "", state_root, r.ok,
                         [snap |-> snap,
                          moved |-> snap # None /\ Reads(stack) # Unwrap(snap).reads])
    /\ cp' = None
    /\ snap' = None

Next ==
    \/ DoAccountMut
    \/ DoAccountOrInsertMut
    \/ DoInsertAccount
    \/ DoRemoveAccount
    \/ DoCommit
    \/ DoModifyAccount
    \/ DoSetAccountStorageSlot
    \/ DoCheckpoint
    \/ DoRevert
    \/ DoMakeSnapshot
    \/ DoRemoveSnapshot
    \/ DoSetStateRoot

Spec == Init /\ [][Next]_vars

\* ================================================================== claims

\* C1: after checkpoint(), any writes of the top layer and then revert(),
\* revert succeeds and account, storage, code_by_hash and state_root return
\* what they returned immediately before the checkpoint.
C1_RevertRestoresCheckpoint ==
    op.name = "revert" /\ op.arg # None
        => op.ok /\ Reads(stack) = Unwrap(op.arg)
\* A revert that undid writes which had changed what the reads return
C1_Witness ==
    op.name = "revert" /\ op.arg # None /\ op.ret = TRUE /\ op.ok

\* C2 as stated: make_snapshot() returned r, then only writes, checkpoints
\* and reverts ran: set_state_root(r) succeeds, state_root() is r, and
\* account and storage return for every address and slot what they returned
\* at the snapshot.
C2_SnapshotRoundTrip ==
    op.name = "set_state_root" /\ op.ret.snap # None
    /\ Unwrap(op.ret.snap).root = op.arg
        => /\ op.ok
           /\ StateRoot(stack) = op.arg
           /\ Reads(stack).account = Unwrap(op.ret.snap).reads.account
           /\ Reads(stack).storage = Unwrap(op.ret.snap).reads.storage
\* C2 as amended: set_state_root(r) succeeds and state_root() is r; when
\* make_snapshot stored the snapshot itself (it returned false for "already
\* existed"), account and storage return what they returned at the snapshot.
C2_FreshSnapshotRoundTrip ==
    op.name = "set_state_root" /\ op.ret.snap # None
    /\ Unwrap(op.ret.snap).root = op.arg
        => /\ op.ok
           /\ StateRoot(stack) = op.arg
           /\ Unwrap(op.ret.snap).fresh
                 => /\ Reads(stack).account = Unwrap(op.ret.snap).reads.account
                    /\ Reads(stack).storage = Unwrap(op.ret.snap).reads.storage
\* A snapshot stored by make_snapshot is restored after the reads had changed
C2_Witness ==
    /\ op.name = "set_state_root" /\ op.ok
    /\ op.ret.snap # None
    /\ Unwrap(op.ret.snap).root = op.arg
    /\ Unwrap(op.ret.snap).fresh
    /\ op.ret.moved
    /\ Reads(stack).account = Unwrap(op.ret.snap).reads.account

\* C3: whenever set_state_root(r) succeeds, the state_root() computed right
\* afterwards is r.
C3_SetStateRootYieldsRoot ==
    op.name = "set_state_root" /\ op.ok => StateRoot(stack) = op.arg

\* The entry a layer has for an address is the one its map returns
Present(layer, a) == HasKey(layer, a) /\ Get(layer, a) # None
Tombstone(layer, a) == HasKey(layer, a) /\ Get(layer, a) = None
NoEntryAbove(s, a, i) == \A j \in (i + 1)..Len(s) : ~HasKey(s[j], a)

\* C4: if layer i has a present record for a and no layer above i has an
\* entry for a, account(a) is layer i's record; if no layer has an entry for
\* a, account(a) is nothing.
C4_ShadowingPresent ==
    \A a \in Addresses :
        /\ \A i \in 1..Len(stack) :
              Present(stack[i], a) /\ NoEntryAbove(stack, a, i)
                  => Account(stack, a) = Get(stack[i], a)
        /\ NoEntryAbove(stack, a, 0) => Account(stack, a) = None
\* A record of a lower layer is read through a layer that has no entry
C4_Witness ==
    \E a \in Addresses : \E i \in 1..(Len(stack) - 1) :
        /\ Present(stack[i], a)
        /\ NoEntryAbove(stack, a, i)
        /\ Account(stack, a) = Get(stack[i], a)

\* C5 as stated: if layer i has a present record for a and any layer above i
\* has a tombstone for a, account(a) is nothing, also when a layer above the
\* tombstone has a present record for a again.
C5_AnyTombstoneAbove ==
    \A a \in Addresses : \A i \in 1..Len(stack) :
        Present(stack[i], a) /\ (\E j \in (i + 1)..Len(stack) : Tombstone(stack[j], a))
            => Account(stack, a) = None
\* C5 as amended: if layer i has a present record for a and the topmost
\* layer that has an entry for a is above i and has a tombstone, account(a)
\* is nothing.
C5_TopmostTombstone ==
    \A a \in Addresses : \A i \in 1..Len(stack) :
        Present(stack[i], a)
        /\ (\E j \in (i + 1)..Len(stack) :
               Tombstone(stack[j], a) /\ NoEntryAbove(stack, a, j))
            => Account(stack, a) = None
\* A tombstone in a layer that is not the top hides a record further down
C5_Witness ==
    \E a \in Addresses : \E i \in 1..Len(stack) : \E j \in (i + 1)..(Len(stack) - 1) :
        /\ Present(stack[i], a)
        /\ Tombstone(stack[j], a)
        /\ NoEntryAbove(stack, a, j)
        /\ Account(stack, a) = None

\* The visible accounts: every address account() returns a record for
Visible(s) == {a \in Addresses : Account(s, a) # None}

\* C6: state_root() commits to exactly the visible accounts, the pairs
\* (a, account(a)) with account(a) present.
C6_RootOfVisible ==
    StateRoot(stack) =
        TrieRoot([a \in Visible(stack) |-> BasicAccount(Unwrap(Account(stack, a)))])

\* C7: revert() fails exactly when the stack has one layer and then changes
\* neither the stack nor the snapshot table; with n > 1 layers it succeeds
\* and leaves the layers 1..n-1 as they were.
C7_RevertFloor ==
    [][op'.name = "revert"
         => /\ op'.ok <=> Len(stack) > 1
            /\ ~op'.ok => stack' = stack /\ snapshots' = snapshots
            /\ op'.ok => /\ Len(stack') = Len(stack) - 1
                         /\ \A i \in 1..Len(stack') : stack'[i] = stack[i]]_vars
\* A revert of the base layer was refused
C7_Witness == op.name = "revert" /\ ~op.ok /\ Len(stack) = 1

\* C8: set_state_root(r) fails exactly when r is no key of the snapshot
\* table and no cached root of the live stack, the top layer counting with
\* the current root; a failure changes no layer's accounts or contracts, no
\* read and no snapshot.
C8_FailsIffUnknown ==
    [][op'.name = "set_state_root"
         => /\ ~op'.ok <=>
                  /\ op'.arg \notin DOMAIN snapshots
                  /\ \A i \in 1..(Len(stack) - 1) : stack[i].state_root # Some(op'.arg)
                  /\ StateRoot(stack) # op'.arg
            /\ ~op'.ok =>
                  /\ Len(stack') = Len(stack)
                  /\ \A i \in 1..Len(stack) :
                        /\ stack'[i].accounts = stack[i].accounts
                        /\ stack'[i].contracts = stack[i].contracts
                  /\ Reads(stack') = Reads(stack)
                  /\ snapshots' = snapshots]_vars

Overridden(base, changes) ==
    [x \in (DOMAIN base \ {y \in DOMAIN changes : changes[y] = 0})
           \cup {y \in DOMAIN changes : changes[y] # 0} |->
        IF x \in DOMAIN changes THEN changes[x] ELSE base[x]]
VisibleStorage(s, a) ==
    IF Account(s, a) = None THEN EmptyStorage ELSE Unwrap(Account(s, a)).storage

\* C10: after commit, an address whose diff is neither empty nor destroyed
\* has a visible record with the diff's balance, nonce and code digest and
\* with the storage (empty on a storage clear, else the one visible before)
\* overridden by the diff's entries; an address whose diff is empty or
\* destroyed has no visible record.
C10_CommitDiff ==
    [][op'.name = "commit"
         => \A a \in DOMAIN op'.arg :
               LET diff == op'.arg[a]
                   base == IF diff.storage_cleared THEN EmptyStorage
                           ELSE VisibleStorage(stack, a)
               IN IF IsEmptyInfo(diff.info) \/ diff.is_destroyed
                  THEN Account(stack', a) = None
                  ELSE /\ Account(stack', a) # None
                       /\ LET account == Unwrap(Account(stack', a))
                          IN /\ account.info.balance = diff.info.balance
                             /\ account.info.nonce = diff.info.nonce
                             /\ account.info.code_hash = diff.info.code_hash
                             /\ account.storage = Overridden(base, diff.storage)]_vars

\* The batches C11 is checked on: a diff for every address
PairBatches == [Addresses -> Diffs]
\* Number of operations before the state C11 is checked on.
MaxBatchSteps == 3
\* The runs of Spec cut after MaxBatchSteps operations
NextBatch == steps < MaxBatchSteps /\ Next
SpecBatch == Init /\ [][NextBatch]_vars

WriteOps ==
    {"commit", "insert_account", "remove_account", "modify_account",
     "set_account_storage_slot", "account_mut", "account_or_insert_mut"}

\* C12: every step of a write operation keeps the stack's length, every layer
\* below the top (accounts, contracts, cached root) and the snapshot table;
\* a commit of an empty batch keeps the whole stack, hence state_root().
C12_CopyOnWriteFrame ==
    [][op'.name \in WriteOps =>
          /\ Len(stack') = Len(stack)
          /\ \A i \in 1..(Len(stack) - 1) : stack'[i] = stack[i]
          /\ snapshots' = snapshots
          /\ (op'.name = "commit" /\ DOMAIN op'.arg = {}) =>
                 /\ stack' = stack
                 /\ StateRoot(stack') = StateRoot(stack)]_vars
\* A write took place on a stack of two layers or more, with a snapshot
\* stored, and left an entry for its address in the top layer while the
\* layer below has none
C12_Witness ==
    /\ op.name \in WriteOps \ {"commit"}
    /\ Len(stack) >= 2
    /\ snapshots # << >>
    /\ HasKey(Top(stack), op.addr)
    /\ ~HasKey(stack[Len(stack) - 1], op.addr)

\* ------------------------------------------------------------------ C13
\* C13: the snapshot table changes only in steps of make_snapshot and
\* remove_snapshot, and a set_state_root(r) resolved through the table leaves
\* the entry for r in the table (so it can be restored or removed again).
C13_SnapshotTableFrame ==
    [][/\ snapshots' # snapshots => op'.name \in {"make_snapshot", "remove_snapshot"}
       /\ (op'.name = "set_state_root" /\ op'.arg \in DOMAIN snapshots) =>
              /\ op'.arg \in DOMAIN snapshots'
              /\ snapshots'[op'.arg] = snapshots[op'.arg]]_vars

\* ------------------------------------------------------------------ C14
\* C14 as stated: after make_snapshot returns (r, flag), the top layer of the
\* live stack has the cached root r, and r is the state_root() of the visible
\* state at the call.
C14_SealsLiveTop ==
    [][op'.name = "make_snapshot" =>
          /\ op'.ret[1] = StateRoot(stack)
          /\ Top(stack').state_root = Some(op'.ret[1])]_vars

\* C14 as the code has it: make_snapshot returns (r, flag) with r the
\* state_root() of the visible state and flag telling whether the table had an
\* entry under r; the live stack, cached root of its top layer included, is
\* left as it was; an existing entry is left as it was; otherwise the stored
\* stack is the live stack with the cached root of its top layer set to r.
C14_SealsStoredCopy ==
    [][op'.name = "make_snapshot" =>
          LET r == op'.ret[1]
          IN /\ r = StateRoot(stack)
             /\ op'.ret[2] = (r \in DOMAIN snapshots)
             /\ stack' = stack
             /\ DOMAIN snapshots' = DOMAIN snapshots \cup {r}
             /\ \A k \in DOMAIN snapshots : snapshots'[k] = snapshots[k]
             /\ LET stored == snapshots'[r]
                IN r \notin DOMAIN snapshots =>
                       /\ Len(stored) = Len(stack)
                       /\ \A i \in 1..(Len(stack) - 1) : stored[i] = stack[i]
                       /\ Top(stored).accounts = Top(stack).accounts
                       /\ Top(stored).contracts = Top(stack).contracts
                       /\ Top(stored).state_root = Some(r)]_vars
\* make_snapshot stored a new entry for a stack of two layers whose top layer
\* is written and open: the stored top is sealed, the live top is not
C14_Witness ==
    /\ op.name = "make_snapshot"
    /\ op.ret[2] = FALSE
    /\ Len(stack) >= 2
    /\ Top(stack).accounts # << >>
    /\ Top(stack).state_root = None
    /\ Top(snapshots[op.ret[1]]).state_root = Some(op.ret[1])

\* ------------------------------------------------------------------ C15
\* Every layer below the top has a cached root
LowerSealed(s) ==
    /\ Len(s) >= 1
    /\ \A i \in 1..(Len(s) - 1) : s[i].state_root # None
\* The stack the scan of set_state_root runs on: the top layer sealed if open
SealedTop(s) ==
    IF Top(s).state_root = None
    THEN SetTop(s, [Top(s) EXCEPT !.state_root = Some(StateRoot(s))])
    ELSE s

\* C15: in every reachable state the live stack and every stored snapshot
\* stack have at least one layer and a cached root on every layer below the
\* top, so last_layer_mut's unwrap finds a layer and the scan of
\* set_state_root, for any requested root, unwraps cached roots that exist.
C15_LowerLayersSealed ==
    /\ LowerSealed(stack)
    /\ \A k \in DOMAIN snapshots : LowerSealed(snapshots[k])
    /\ \A r \in Roots : ScanUnwraps(SealedTop(stack), r)
    /\ \A k \in DOMAIN snapshots :
           \A r \in Roots : ScanUnwraps(SealedTop(snapshots[k]), r)
\* set_state_root scanned a stack of two layers or more for a root no layer
\* has and returned the error, with a snapshot of two layers or more stored
C15_Witness ==
    /\ op.name = "set_state_root"
    /\ ~op.ok
    /\ Len(stack) >= 2
    /\ \E k \in DOMAIN snapshots : Len(snapshots[k]) >= 2

\* ------------------------------------------------------------------ C16
\* C16: once a layer of the live stack has a cached root, no step gives it
\* another cached root or changes its accounts (a layer is followed by its
\* position while it stays in the stack; a snapshot restore replaces the
\* layers and is left out).
C16_CachedRootSetOnce ==
    [][~(op'.name = "set_state_root" /\ op'.arg \in DOMAIN snapshots) =>
          \A i \in 1..Len(stack) :
              (i <= Len(stack') /\ stack[i].state_root # None) =>
                  /\ stack'[i].state_root = stack[i].state_root
                  /\ stack'[i].accounts = stack[i].accounts]_vars

\* ------------------------------------------------------------------ C17
\* The account records a layer stores (every entry of every key)
Records(layer) ==
    UNION {{Unwrap(layer.accounts[a].probe[k]) :
               k \in {j \in DOMAIN layer.accounts[a].probe :
                         layer.accounts[a].probe[j] # None}}
           : a \in DOMAIN layer.accounts}

\* C17: in every reachable state no account record of any layer has a storage
\* entry whose value is zero.
C17_SparseStorage ==
    \A i \in 1..Len(stack) :
        \A account \in Records(stack[i]) :
            \A index \in DOMAIN account.storage : account.storage[index] # 0

\* ------------------------------------------------------------------ C18
\* C18: in every reachable state every account record stored in a layer whose
\* code digest is not KECCAK_EMPTY has no inline bytecode, and the assertion
\* of remove_account holds for a call on any address.
C18_CodeDetached ==
    /\ \A i \in 1..Len(stack) :
           \A account \in Records(stack[i]) :
               account.info.code_hash # KECCAK_EMPTY => account.info.code = None
    /\ \A a \in Addresses : RemoveAssertion(stack, a)

\* ------------------------------------------------------------------ C19
\* C19: account_or_insert_mut(a) on a top layer that holds a tombstone for a
\* leaves exactly one entry for a in the top layer, the default record, and
\* account(a) returns it; account_mut(a) on such a top layer returns a handle
\* and inserts nothing; account_mut(a) when the top layer has no entry for a
\* and no layer has a visible record returns nothing and inserts nothing.
C19_HandleOnTombstone ==
    [][/\ (op'.name = "account_or_insert_mut" /\ Tombstone(Top(stack), op'.addr)) =>
              /\ Len(Top(stack').accounts[op'.addr].probe) = 1
              /\ Get(Top(stack'), op'.addr) = Some(DefaultAccount)
              /\ Account(stack', op'.addr) = Some(DefaultAccount)
       /\ (op'.name = "account_mut" /\ Tombstone(Top(stack), op'.addr)) =>
              /\ op'.ok
              /\ stack' = stack
       /\ (op'.name = "account_mut" /\ ~HasKey(Top(stack), op'.addr)
             /\ Account(stack, op'.addr) = None) =>
              /\ ~op'.ok
              /\ stack' = stack]_vars

\* ------------------------------------------------------------------ C20
\* The runs made of insert_account, modify_account, remove_account,
\* checkpoint and revert only
NextCode ==
    \/ DoInsertAccount
    \/ DoModifyAccount
    \/ DoRemoveAccount
    \/ DoCheckpoint
    \/ DoRevert
SpecCode == Init /\ [][NextCode]_vars

\* C20: in every state reached through insert_account, modify_account,
\* remove_account, checkpoint and revert, every visible account whose code
\* digest h is not KECCAK_EMPTY has code_by_hash(h) equal to a non-empty
\* bytecode whose digest is h (every such record got its digest together with
\* the bytecode stored under it: genesis, insert_account and modify_account
\* all store the code they are given).
C20_CodeResolvable ==
    \A a \in Addresses :
        Account(stack, a) # None =>
            LET h == Unwrap(Account(stack, a)).info.code_hash
            IN h # KECCAK_EMPTY =>
                   /\ CodeByHash(stack, h) # None
                   /\ ~IsEmptyCode(Unwrap(CodeByHash(stack, h)))
                   /\ Hash(Unwrap(CodeByHash(stack, h))) = h

\* ------------------------------------------------------------------ C21
\* C21: a modify_account(a, m) whose mutator leaves the code argument as it
\* received it, on a visible account with a non-empty digest h whose bytecode
\* code_by_hash(h) returns, leaves the visible record of a with digest h and
\* code_by_hash(h) as it was; a mutator that replaces the code with a
\* bytecode leaves the record with the new digest, the new bytecode under it
\* in the top layer, and the placeholder under the old digest if it differs.
C21_ModifyPreservesCode ==
    [][(op'.name = "modify_account" /\ Account(stack, op'.addr) # None) =>
          LET a == op'.addr
              h == Unwrap(Account(stack, a)).info.code_hash
              code == op'.arg.code
          IN /\ (/\ code = None
                 /\ h # KECCAK_EMPTY
                 /\ CodeByHash(stack, h) # None
                 /\ ~IsEmptyCode(Unwrap(CodeByHash(stack, h)))) =>
                    /\ Account(stack', a) # None
                    /\ Unwrap(Account(stack', a)).info.code_hash = h
                    /\ CodeByHash(stack', h) = CodeByHash(stack, h)
             /\ (code # None /\ Unwrap(code) # None) =>
                    LET new == Unwrap(Unwrap(code))
                    IN /\ Account(stack', a) # None
                       /\ Unwrap(Account(stack', a)).info.code_hash = Hash(new)
                       /\ Hash(new) \in DOMAIN Top(stack').contracts
                       /\ Top(stack').contracts[Hash(new)] = new
                       /\ (h # KECCAK_EMPTY /\ h # Hash(new)) =>
                              /\ h \in DOMAIN Top(stack').contracts
                              /\ Top(stack').contracts[h] = EmptyCode]_vars

====
